---- MODULE Spec2Model ----
(***************************************************************************)
(* Model of the two Dash front-ends of the repository:                     *)
(*   src/app.py      multi-prompt variant  (variant = "app")               *)
(*   src/app_try.py  single-call variant   (variant = "app_try")           *)
(* Python strings are sequences of one-character strings, byte strings are *)
(* sequences of 0..255, None is the record None, a dict is a record whose  *)
(* DOMAIN is its key set, scores are hundredths (90 stands for 0.90).      *)
(***************************************************************************)
EXTENDS Integers, Sequences, FiniteSets, TLC

VARIABLES
    variant,                    \* which of the two scripts is running
    api_key,                    \* dcc.Store "api_key"
    key_loaded,                 \* store_api_key has run (page load)
    upload_contents,            \* dcc.Upload "upload-image".contents
    uploaded_image_container,   \* children of "uploaded-image-container"
    detection_results,          \* children of "detection-results"
    annotated_image_container,  \* children of "annotated-image-container"
    detection_store,            \* dcc.Store "detection_store"
    request,                    \* State captured by a detect click still being served
    run,                        \* the execution of detect_objects served last
    calls_made,                 \* remote calls issued since the page was loaded
    download_call,              \* download_results as run by the last click on download
    download_button,            \* style of "download-button"
    toggle_call,                \* the call of toggle_download that is due, if any
    draw_call                   \* a direct call of draw_bounding_boxes: arguments, result

vars == <<variant, api_key, key_loaded, upload_contents, uploaded_image_container,
          detection_results, annotated_image_container, detection_store,
          request, run, calls_made, download_call, download_button, toggle_call,
          draw_call>>

-----------------------------------------------------------------------------
(* Bounds of the model *)

MaxCalls == 3           \* remote calls followed in one session

-----------------------------------------------------------------------------
(* Python values *)

None == [t |-> "None"]
PyStr(s) == [t |-> "str", v |-> s]
no_update == [t |-> "no_update"]

\* dict.get(key, default)
Get(d, k, default) == IF k \in DOMAIN d THEN d[k] ELSE default

Max(a, b) == IF a > b THEN a ELSE b
Min(a, b) == IF a < b THEN a ELSE b

StartsWith(s, p) == Len(s) >= Len(p) /\ SubSeq(s, 1, Len(p)) = p

\* str.split(sep) for a one-character separator
RECURSIVE SplitAcc(_, _, _)
SplitAcc(s, sep, cur) ==
    IF s = <<>> THEN <<cur>>
    ELSE IF Head(s) = sep THEN <<cur>> \o SplitAcc(Tail(s), sep, <<>>)
    ELSE SplitAcc(Tail(s), sep, Append(cur, Head(s)))
Split(s, sep) == SplitAcc(s, sep, <<>>)

\* str.strip()
RECURSIVE LStrip(_)
LStrip(s) == IF s # <<>> /\ Head(s) = " " THEN LStrip(Tail(s)) ELSE s
RECURSIVE RStrip(_)
RStrip(s) == IF s # <<>> /\ s[Len(s)] = " " THEN RStrip(SubSeq(s, 1, Len(s) - 1)) ELSE s
Strip(s) == RStrip(LStrip(s))

Digits == <<"0", "1", "2", "3", "4", "5", "6", "7", "8", "9">>
RECURSIVE NatToStr(_)
NatToStr(n) == IF n < 10 THEN <<Digits[n + 1]>>
               ELSE NatToStr(n \div 10) \o <<Digits[(n % 10) + 1]>>
\* str(int)
IntToStr(n) == IF n < 0 THEN <<"-">> \o NatToStr(0 - n) ELSE NatToStr(n)

\* f"{score:.2f}" of a score given in hundredths
FormatScore(h) ==
    LET a == IF h < 0 THEN 0 - h ELSE h
    IN  (IF h < 0 THEN <<"-">> ELSE <<>>)
        \o NatToStr(a \div 100) \o <<".">>
        \o <<Digits[((a \div 10) % 10) + 1], Digits[(a % 10) + 1]>>

\* str(list of int), e.g. [10, 10, 50, 50]
RECURSIVE JoinInts(_)
JoinInts(xs) == IF xs = <<>> THEN <<>>
                ELSE IF Len(xs) = 1 THEN IntToStr(xs[1])
                ELSE IntToStr(xs[1]) \o <<",", " ">> \o JoinInts(Tail(xs))
ListToStr(xs) == <<"[">> \o JoinInts(xs) \o <<"]">>

-----------------------------------------------------------------------------
(* base64 *)

B64Alphabet ==
    <<"A","B","C","D","E","F","G","H","I","J","K","L","M","N","O","P",
      "Q","R","S","T","U","V","W","X","Y","Z","a","b","c","d","e","f",
      "g","h","i","j","k","l","m","n","o","p","q","r","s","t","u","v",
      "w","x","y","z","0","1","2","3","4","5","6","7","8","9","+","/">>

B64Char(n) == B64Alphabet[n + 1]
B64Index(c) == (CHOOSE i \in 1..64 : B64Alphabet[i] = c) - 1

\* base64.b64encode(bytes).decode("utf-8")
RECURSIVE b64encode(_)
b64encode(bs) ==
    IF bs = <<>> THEN <<>>
    ELSE IF Len(bs) = 1 THEN
        <<B64Char(bs[1] \div 4), B64Char((bs[1] % 4) * 16), "=", "=">>
    ELSE IF Len(bs) = 2 THEN
        <<B64Char(bs[1] \div 4),
          B64Char((bs[1] % 4) * 16 + bs[2] \div 16),
          B64Char((bs[2] % 16) * 4), "=">>
    ELSE
        <<B64Char(bs[1] \div 4),
          B64Char((bs[1] % 4) * 16 + bs[2] \div 16),
          B64Char((bs[2] % 16) * 4 + bs[3] \div 64),
          B64Char(bs[3] % 64)>> \o b64encode(SubSeq(bs, 4, Len(bs)))

\* base64.b64decode(str) of a padded base64 text
RECURSIVE b64decode(_)
b64decode(cs) ==
    IF Len(cs) < 4 THEN <<>>
    ELSE LET a == B64Index(cs[1])
             b == B64Index(cs[2])
             rest == b64decode(SubSeq(cs, 5, Len(cs)))
         IN  IF cs[3] = "=" THEN <<a * 4 + b \div 16>>
             ELSE IF cs[4] = "=" THEN
                 <<a * 4 + b \div 16, (b % 16) * 16 + B64Index(cs[3]) \div 4>>
             ELSE <<a * 4 + b \div 16,
                    (b % 16) * 16 + B64Index(cs[3]) \div 4,
                    (B64Index(cs[3]) % 4) * 64 + B64Index(cs[4])>> \o rest

-----------------------------------------------------------------------------
(* The image library as the two scripts use it.  An image file is a byte   *)
(* string whose first two bytes are its magic number and whose third byte  *)
(* stands for its pixels.                                                  *)

JpegFile(px) == <<255, 216, px>>        \* an RGB JPEG
PngFile(px) == <<137, 80, px>>          \* a PNG with an alpha channel
TextFile == <<37, 80>>                  \* an upload that is not an image

\* Image.open(io.BytesIO(b)): raises on bytes that are no image
ImageOpen(b) ==
    IF StartsWith(b, <<255, 216>>) /\ Len(b) >= 3
        THEN [exc |-> FALSE, mode |-> "RGB", px |-> b[3], ops |-> <<>>]
    ELSE IF StartsWith(b, <<137, 80>>) /\ Len(b) >= 3
        THEN [exc |-> FALSE, mode |-> "RGBA", px |-> b[3], ops |-> <<>>]
    ELSE [exc |-> TRUE]

\* image.convert("RGB")
ConvertRGB(im) == [im EXCEPT !.mode = "RGB"]

ColorByte(c) == (c[1] + c[2] + c[3]) % 256
OpByte(op) == IF op.op = "rectangle" THEN ColorByte(op.outline) ELSE ColorByte(op.fill)

\* image.save(buf, format="JPEG"); buf.getvalue(): JPEG has no alpha channel,
\* saving an RGBA image raises OSError
ImageSaveJpeg(im) ==
    IF im.mode # "RGB" THEN [exc |-> TRUE]
    ELSE [exc |-> FALSE,
          bytes |-> <<255, 216, im.px>> \o [i \in 1..Len(im.ops) |-> OpByte(im.ops[i])]]

\* int(x) of the quotient n/d, d > 0: truncation toward zero
Trunc(n, d) == IF n >= 0 THEN n \div d ELSE 0 - ((0 - n) \div d)

NA == <<"N", "/", "A">>

\* draw.rectangle(...) followed by draw.text(...) for one detection
DrawOps(box, label, score, color) ==
    << [op |-> "rectangle", xy |-> box, outline |-> color, width |-> 3],
       [op |-> "text", xy |-> <<box[1] + 2, box[2] - 15>>,
        text |-> label \o <<" ", "(">> \o FormatScore(score) \o <<")">>,
        fill |-> color] >>

\* list.sort(key=score, reverse=True) / sorted(..., reverse=True): stable
ScoreOf(det) == Get(det, "score", 0)
\* the sort without reverse=True: ascending scores
RECURSIVE InsertAscending(_, _)
InsertAscending(sorted, det) ==
    IF sorted = <<>> THEN <<det>>
    ELSE IF ScoreOf(Head(sorted)) <= ScoreOf(det)
         THEN <<Head(sorted)>> \o InsertAscending(Tail(sorted), det)
         ELSE <<det>> \o sorted
RECURSIVE SortAscending(_)
SortAscending(dets) ==
    IF dets = <<>> THEN <<>>
    ELSE InsertAscending(SortAscending(SubSeq(dets, 1, Len(dets) - 1)), dets[Len(dets)])
RECURSIVE InsertByScore(_, _)
InsertByScore(sorted, det) ==
    IF sorted = <<>> THEN <<det>>
    ELSE IF ScoreOf(Head(sorted)) >= ScoreOf(det)
         THEN <<Head(sorted)>> \o InsertByScore(Tail(sorted), det)
         ELSE <<det>> \o sorted
RECURSIVE SortByScore(_)
SortByScore(dets) ==
    IF dets = <<>> THEN <<>>
    ELSE InsertByScore(SortByScore(SubSeq(dets, 1, Len(dets) - 1)), dets[Len(dets)])

-----------------------------------------------------------------------------
(* draw_bounding_boxes of src/app.py *)

\* DrawLoop with round(...) in place of int(...): the channels are rounded to
\* the nearest integer
RECURSIVE DrawLoopRounded(_, _)
DrawLoopRounded(detections, prompt_colors) ==
    IF detections = <<>> THEN <<>>
    ELSE LET det == Head(detections)
             label == Get(det, "label", NA)
             score == Get(det, "score", 0)
             box == Get(det, "bounding_box", <<>>)
             base_color == Get(prompt_colors, label, <<0, 0, 0>>)
             color == <<Trunc(base_color[1] * score + 50, 100),
                        Trunc(base_color[2] * score + 50, 100),
                        Trunc(base_color[3] * score + 50, 100)>>
         IN  (IF Len(box) # 4 THEN <<>> ELSE DrawOps(box, label, score, color))
             \o DrawLoopRounded(Tail(detections), prompt_colors)

RECURSIVE DrawLoop(_, _)
DrawLoop(detections, prompt_colors) ==
    IF detections = <<>> THEN <<>>
    ELSE LET det == Head(detections)
             label == Get(det, "label", NA)
             score == Get(det, "score", 0)
             box == Get(det, "bounding_box", <<>>)
             base_color == Get(prompt_colors, label, <<0, 0, 0>>)
             color == <<Trunc(base_color[1] * score, 100),
                        Trunc(base_color[2] * score, 100),
                        Trunc(base_color[3] * score, 100)>>
         IN  (IF Len(box) # 4 THEN <<>> ELSE DrawOps(box, label, score, color))
             \o DrawLoop(Tail(detections), prompt_colors)

draw_bounding_boxes(decoded_image, detections, prompt_colors) ==
    LET opened == ImageOpen(decoded_image)
    IN  IF opened.exc THEN [exc |-> TRUE, ops |-> <<>>]
        ELSE LET image == [ConvertRGB(opened) EXCEPT
                               !.ops = DrawLoop(detections, prompt_colors)]
                 saved == ImageSaveJpeg(image)
             IN  IF saved.exc THEN [exc |-> TRUE, ops |-> image.ops]
                 ELSE [exc |-> FALSE, ops |-> image.ops, bytes |-> saved.bytes]

-----------------------------------------------------------------------------
(* draw_bounding_boxes of src/app_try.py *)

RECURSIVE MinScore(_)
MinScore(dets) == IF Len(dets) = 1 THEN ScoreOf(dets[1])
                  ELSE Min(ScoreOf(Head(dets)), MinScore(Tail(dets)))
RECURSIVE MaxScore(_)
MaxScore(dets) == IF Len(dets) = 1 THEN ScoreOf(dets[1])
                  ELSE Max(ScoreOf(Head(dets)), MaxScore(Tail(dets)))

\* GradientColor with norm_score = 0 when all scores are equal
GradientColorEqualIsRed(score, min_score, max_score) ==
    IF max_score > min_score
        THEN <<Trunc(255 * (max_score - score), max_score - min_score),
               Trunc(255 * (score - min_score), max_score - min_score), 0>>
        ELSE <<255, 0, 0>>

\* norm_score and the two channels int(255 * (1 - norm_score)),
\* int(255 * norm_score), computed on the exact quotient.  The code computes
\* them in floating point; on the scores the batches below are made of the
\* two computations give the same channels.
GradientColor(score, min_score, max_score) ==
    IF max_score > min_score
        THEN <<Trunc(255 * (max_score - score), max_score - min_score),
               Trunc(255 * (score - min_score), max_score - min_score), 0>>
        ELSE <<0, 255, 0>>

\* the loop over sorted(detections): the result is the operations drawn and
\* whether unpacking a box of the wrong length raised ValueError
RECURSIVE DrawLoopTry(_, _, _)
DrawLoopTry(detections, min_score, max_score) ==
    IF detections = <<>> THEN [exc |-> FALSE, ops |-> <<>>]
    ELSE LET det == Head(detections)
             label == Get(det, "label", NA)
             score == Get(det, "score", 0)
             box == Get(det, "bounding_box", <<>>)
         IN  IF Len(box) # 4 THEN [exc |-> TRUE, ops |-> <<>>]
             ELSE LET rest == DrawLoopTry(Tail(detections), min_score, max_score)
                      color == GradientColor(score, min_score, max_score)
                  IN  [exc |-> rest.exc,
                       ops |-> DrawOps(box, label, score, color) \o rest.ops]

draw_bounding_boxes_try(decoded_image, detections) ==
    LET opened == ImageOpen(decoded_image)
    IN  IF opened.exc \/ detections = <<>> THEN [exc |-> TRUE, ops |-> <<>>]
        ELSE LET loop == DrawLoopTry(SortByScore(detections),
                                     MinScore(detections), MaxScore(detections))
                 image == [opened EXCEPT !.ops = loop.ops]
                 saved == ImageSaveJpeg(image)
             IN  IF loop.exc \/ saved.exc THEN [exc |-> TRUE, ops |-> loop.ops]
                 ELSE [exc |-> FALSE, ops |-> loop.ops, bytes |-> saved.bytes]

-----------------------------------------------------------------------------
(* What the remote service may answer to one call of                       *)
(* call_agentic_object_detection_api:                                      *)
(*   [t |-> "raise"]          requests.post / raise_for_status / json()    *)
(*                            raised                                       *)
(*   [t |-> "null"]           the JSON body is null                        *)
(*   [t |-> "dict", d |-> r]  the JSON body is the object r                *)
(* A group of data is a list of detections or one bare detection.          *)

GroupList(items) == [list |-> TRUE, items |-> items]
GroupBare(item) == [list |-> FALSE, item |-> item]
GroupItems(grp) == IF grp.list THEN grp.items ELSE <<grp.item>>

\* every detection a JSON body carries
RECURSIVE DetectionsOfData(_)
DetectionsOfData(data) ==
    IF data = <<>> THEN <<>> ELSE GroupItems(Head(data)) \o DetectionsOfData(Tail(data))
DetectionsOfResponse(r) ==
    IF r.t = "dict" /\ "data" \in DOMAIN r.d THEN DetectionsOfData(r.d.data) ELSE <<>>

\* truth value of a str-or-None
Falsy(x) == x.t = "None" \/ (x.t = "str" /\ x.v = <<>>)

DataUrlPrefix == <<"d","a","t","a",":","i","m","a","g","e","/","j","p","e","g",
                   ";","b","a","s","e","6","4",",">>
\* f"data:image/jpeg;base64,{b64}"
DataUrl(bytes) == DataUrlPrefix \o b64encode(bytes)

\* str(bbox) of det.get("bounding_box", {})
BoxToStr(det) == IF "bounding_box" \in DOMAIN det THEN ListToStr(det.bounding_box)
                 ELSE <<"{", "}">>

\* [p.strip() for p in text.split(",") if p.strip()]
RECURSIVE StripNonEmpty(_)
StripNonEmpty(parts) ==
    IF parts = <<>> THEN <<>>
    ELSE (IF Strip(Head(parts)) # <<>> THEN <<Strip(Head(parts))>> ELSE <<>>)
         \o StripNonEmpty(Tail(parts))
raw_prompts(prompt_text) == StripNonEmpty(Split(prompt_text, ","))

MaxPrompts == 3
prompts_list(prompt_text) ==
    SubSeq(raw_prompts(prompt_text), 1, Min(MaxPrompts, Len(raw_prompts(prompt_text))))

base_palette == << <<0, 255, 0>>, <<0, 0, 255>>, <<255, 0, 0>> >>

\* {prompts_list[i]: base_palette[i] for i in range(len(prompts_list))}:
\* a later equal key overwrites an earlier one
LastIndex(prompts, p) ==
    CHOOSE i \in DOMAIN prompts :
        prompts[i] = p /\ \A j \in DOMAIN prompts : prompts[j] = p => j <= i
prompt_colors(prompts) ==
    [p \in {prompts[i] : i \in DOMAIN prompts} |-> base_palette[LastIndex(prompts, p)]]

\* a plain text shown to the user
Msg(text) == [text |-> text]

\* a handler that returns the triple (results, annotated image, store)
Return(results, annotated, store) ==
    [exc |-> FALSE, results |-> results, annotated |-> annotated, store |-> store]
\* a handler left by an uncaught exception
Raise == [exc |-> TRUE]

\* what an execution of detect_objects did besides returning: the remote
\* calls, the detections they returned, the prompt-color map, the batch handed
\* to draw_bounding_boxes, the operations drawn, the bytes of the annotated image
NoCalls == [calls |-> <<>>, returned |-> <<>>, colors |-> <<>>, batch |-> <<>>,
            ops |-> <<>>, bytes |-> <<>>]

-----------------------------------------------------------------------------
(* detect_objects of src/app.py *)

\* LoopBody without the try/except around the call: a call that raises ends
\* the handler
LoopBodyNoExcept(acc, prompt, res, decoded_image, key) ==
    LET called == [acc EXCEPT
            !.calls = Append(@, [image |-> decoded_image, prompt |-> prompt,
                                 api_key |-> key]),
            !.returned = @ \o DetectionsOfResponse(res)]
        found == [g \in DOMAIN res.d.data |->
                     [line |-> "Found", n |-> Len(GroupItems(res.d.data[g])),
                      prompt |-> prompt]]
    IN  IF res.t = "raise" \/ res.t = "null" THEN
            [called EXCEPT !.exc = TRUE]
        ELSE IF "data" \in DOMAIN res.d /\ res.d.data # <<>> THEN
            [called EXCEPT !.status = @ \o found,
                           !.combined = @ \o DetectionsOfData(res.d.data)]
        ELSE
            [called EXCEPT !.status =
                Append(@, [line |-> "NoDetections", prompt |-> prompt])]

\* LoopBody reporting a response without detections as a failed call
LoopBodyEmptyIsFailure(acc, prompt, res, decoded_image, key) ==
    LET called == [acc EXCEPT
            !.calls = Append(@, [image |-> decoded_image, prompt |-> prompt,
                                 api_key |-> key]),
            !.returned = @ \o DetectionsOfResponse(res)]
        found == [g \in DOMAIN res.d.data |->
                     [line |-> "Found", n |-> Len(GroupItems(res.d.data[g])),
                      prompt |-> prompt]]
    IN  IF res.t = "raise" THEN
            [called EXCEPT !.status = Append(@, [line |-> "Failed", prompt |-> prompt])]
        ELSE IF res.t = "null" THEN
            [called EXCEPT !.exc = TRUE]
        ELSE IF "data" \in DOMAIN res.d /\ res.d.data # <<>> THEN
            [called EXCEPT !.status = @ \o found,
                           !.combined = @ \o DetectionsOfData(res.d.data)]
        ELSE
            [called EXCEPT !.status = Append(@, [line |-> "Failed", prompt |-> prompt])]

\* one pass of the for loop over prompts_list: the call for prompt, answered
\* by res, and the handling of its result
LoopBody(acc, prompt, res, decoded_image, key) ==
    LET called == [acc EXCEPT
            !.calls = Append(@, [image |-> decoded_image, prompt |-> prompt,
                                 api_key |-> key]),
            !.returned = @ \o DetectionsOfResponse(res)]
        found == [g \in DOMAIN res.d.data |->
                     [line |-> "Found", n |-> Len(GroupItems(res.d.data[g])),
                      prompt |-> prompt]]
    IN  IF res.t = "raise" THEN
            [called EXCEPT !.status = Append(@, [line |-> "Failed", prompt |-> prompt])]
        ELSE IF res.t = "null" THEN
            [called EXCEPT !.exc = TRUE]
        ELSE IF "data" \in DOMAIN res.d /\ res.d.data # <<>> THEN
            [called EXCEPT !.status = @ \o found,
                           !.combined = @ \o DetectionsOfData(res.d.data)]
        ELSE
            [called EXCEPT !.status =
                Append(@, [line |-> "NoDetections", prompt |-> prompt])]

\* the for loop over prompts_list; resp[i] is the answer to the i-th call
RECURSIVE CallLoop(_, _, _, _, _, _)
CallLoop(prompts, i, decoded_image, key, resp, acc) ==
    IF i > Len(prompts) \/ acc.exc THEN acc
    ELSE CallLoop(prompts, i + 1, decoded_image, key, resp,
                  LoopBody(acc, prompts[i], resp[i], decoded_image, key))

TableRow(det) ==
    [Label |-> Get(det, "label", NA), Score |-> FormatScore(Get(det, "score", 0))]
    @@ ("Bounding Box" :> BoxToStr(det))

StyleCond(det, idx, colors) ==
    LET base == Get(colors, Get(det, "label", NA), <<0, 0, 0>>)
        score == Get(det, "score", 0)
    IN  [row_index |-> idx, column_id |-> "Label",
         color |-> <<Trunc(base[1] * score, 100), Trunc(base[2] * score, 100),
                     Trunc(base[3] * score, 100)>>]

detect_objects(uploaded_image_contents, prompt_text, key, resp) ==
    IF Falsy(uploaded_image_contents) THEN
        NoCalls @@ Return(Msg("No image uploaded yet."), None, None)
    ELSE IF Falsy(prompt_text) THEN
        NoCalls @@ Return(Msg("Please enter at least one prompt."), None, None)
    ELSE IF Falsy(key) THEN
        NoCalls @@ Return(Msg("API key missing. Please ensure you have saved your API key."),
                          None, None)
    ELSE IF prompts_list(prompt_text.v) = <<>> THEN
        NoCalls @@ Return(Msg("No valid prompts found."), None, None)
    ELSE IF Len(Split(uploaded_image_contents.v, ",")) # 2 THEN
        NoCalls @@ Raise
    ELSE
    LET prompts == prompts_list(prompt_text.v)
        colors == prompt_colors(prompts)
        decoded_image == b64decode(Split(uploaded_image_contents.v, ",")[2])
        loop == CallLoop(prompts, 1, decoded_image, key, resp,
                    [exc |-> FALSE, combined |-> <<>>, calls |-> <<>>, returned |-> <<>>,
                     status |-> <<[line |-> "prompted", n |-> Len(prompts),
                                   prompts |-> prompts]>>])
        seen == [calls |-> loop.calls, returned |-> loop.returned, colors |-> colors]
        combined_detections == SortByScore(loop.combined)
        table_data == [i \in DOMAIN combined_detections |-> TableRow(combined_detections[i])]
        style_cond == [i \in DOMAIN combined_detections |->
                          StyleCond(combined_detections[i], i - 1, colors)]
        drawn == draw_bounding_boxes(decoded_image, combined_detections, colors)
    IN  IF loop.exc THEN
            seen @@ NoCalls @@ Raise
        ELSE IF loop.combined = <<>> THEN
            seen @@ NoCalls
                 @@ Return([status |-> loop.status, text |-> "No objects detected."],
                           None, None)
        ELSE IF drawn.exc THEN
            seen @@ [batch |-> combined_detections, ops |-> drawn.ops] @@ NoCalls @@ Raise
        ELSE
            seen @@ [batch |-> combined_detections, ops |-> drawn.ops,
                     bytes |-> drawn.bytes]
                 @@ NoCalls
                 @@ Return([status |-> loop.status,
                            table |-> [data |-> table_data,
                                       style_data_conditional |-> style_cond]],
                           [img_src |-> DataUrl(drawn.bytes)],
                           [annotated_image |-> DataUrl(drawn.bytes),
                            detection_table |-> table_data])

-----------------------------------------------------------------------------
(* detect_objects of src/app_try.py *)

TextLine(det) ==
    [Label |-> Get(det, "label", NA), Score |-> FormatScore(Get(det, "score", 0)),
     Box |-> BoxToStr(det)]

detect_objects_try(uploaded_image_contents, prompt_text, key, resp) ==
    IF Falsy(uploaded_image_contents) THEN
        NoCalls @@ Return(Msg("No image uploaded yet."), None, None)
    ELSE IF Falsy(prompt_text) THEN
        NoCalls @@ Return(Msg("Please enter at least one prompt."), None, None)
    ELSE IF Falsy(key) THEN
        NoCalls @@ Return(Msg("API key missing. Please ensure you have saved your API key."),
                          None, None)
    ELSE IF Len(Split(uploaded_image_contents.v, ",")) # 2 THEN
        NoCalls @@ Raise
    ELSE
    LET decoded_image == b64decode(Split(uploaded_image_contents.v, ",")[2])
        result == resp[1]
        seen == [calls |-> <<[image |-> decoded_image, prompt |-> prompt_text.v,
                              api_key |-> key]>>,
                 returned |-> DetectionsOfResponse(result)]
        first == result.d.data[1]
        detections == SortByScore(first.items)
        output_str == [header |-> "Objects Detected:",
                       lines |-> [i \in DOMAIN detections |-> TextLine(detections[i])]]
        drawn == draw_bounding_boxes_try(decoded_image, detections)
    IN  IF result.t = "raise" THEN
            seen @@ NoCalls @@ Return(Msg("API call failed"), None, None)
        ELSE IF result.t = "null" THEN
            seen @@ NoCalls @@ Raise
        ELSE IF "data" \notin DOMAIN result.d \/ Len(result.d.data) = 0 THEN
            seen @@ NoCalls @@ Return(Msg("Unexpected response"), None, None)
        ELSE IF ~first.list THEN
            seen @@ NoCalls @@ Raise
        ELSE IF first.items = <<>> THEN
            seen @@ NoCalls
                 @@ Return(Msg("No objects detected for the given prompts."), None, None)
        ELSE IF drawn.exc THEN
            seen @@ [batch |-> detections, ops |-> drawn.ops] @@ NoCalls @@ Raise
        ELSE
            seen @@ [batch |-> detections, ops |-> drawn.ops, bytes |-> drawn.bytes]
                 @@ NoCalls
                 @@ Return(output_str, [img_src |-> DataUrl(drawn.bytes)],
                           [annotated_image |-> DataUrl(drawn.bytes),
                            detection_text |-> output_str])

-----------------------------------------------------------------------------
(* download_results *)

\* csv.writer, excel dialect: a field holding the delimiter, the quote
\* character or a line break is quoted, quotes inside it doubled
CsvSpecial == {",", "\"", "\r", "\n"}
RECURSIVE DoubleQuotes(_)
DoubleQuotes(f) ==
    IF f = <<>> THEN <<>>
    ELSE (IF Head(f) = "\"" THEN <<"\"", "\"">> ELSE <<Head(f)>>) \o DoubleQuotes(Tail(f))
\* the row written by joining the fields with commas, no quoting
CsvFieldUnquoted(f) == f
CsvField(f) ==
    IF \E i \in DOMAIN f : f[i] \in CsvSpecial
        THEN <<"\"">> \o DoubleQuotes(f) \o <<"\"">>
        ELSE f
RECURSIVE CsvJoin(_)
CsvJoin(fields) ==
    IF Len(fields) = 1 THEN CsvField(fields[1])
    ELSE CsvField(Head(fields)) \o <<",">> \o CsvJoin(Tail(fields))
CsvLine(fields) == CsvJoin(fields) \o <<"\r", "\n">>

fieldnames == <<"Label", "Score", "Bounding Box">>
HeaderChars ==
    << <<"L","a","b","e","l">>, <<"S","c","o","r","e">>,
       <<"B","o","u","n","d","i","n","g"," ","B","o","x">> >>

\* w.writeheader(); w.writerows(tbl); buf.getvalue()
RECURSIVE WriteRows(_)
WriteRows(tbl) ==
    IF tbl = <<>> THEN <<>>
    ELSE CsvLine([k \in 1..3 |-> Head(tbl)[fieldnames[k]]]) \o WriteRows(Tail(tbl))
CsvText(tbl) == CsvLine(HeaderChars) \o WriteRows(tbl)

\* dcc.send_bytes(zip_buf.getvalue(), "results.zip"): the archive is the
\* sequence of its entries
SendZip(entries) == [filename |-> "results.zip", zip |-> entries]

\* download_results without the early return on an empty store
download_results_unguarded(data) ==
    LET ann == IF data = None THEN <<>> ELSE Get(data, "annotated_image", <<>>)
        tbl == IF data = None THEN <<>> ELSE Get(data, "detection_table", <<>>)
        img_b == IF StartsWith(ann, SubSeq(DataUrlPrefix, 1, 10))
                     THEN b64decode(Split(ann, ",")[2]) ELSE <<>>
    IN  SendZip(<<[name |-> "annotated_image.jpg", data |-> img_b],
                  [name |-> "results.csv", data |-> CsvText(tbl)]>>)

download_results(data) ==
    IF data = None THEN no_update
    ELSE LET ann == Get(data, "annotated_image", <<>>)
             tbl == Get(data, "detection_table", <<>>)
             csv_bytes == CsvText(tbl)
             img_b == IF StartsWith(ann, SubSeq(DataUrlPrefix, 1, 10))
                          THEN b64decode(Split(ann, ",")[2]) ELSE <<>>
         IN  SendZip(<<[name |-> "annotated_image.jpg", data |-> img_b],
                       [name |-> "results.csv", data |-> csv_bytes]>>)

download_results_try(detection_data) ==
    IF detection_data = None THEN no_update
    ELSE LET annotated_image == Get(detection_data, "annotated_image", None)
             detection_text == Get(detection_data, "detection_text", <<>>)
             annotated_bytes ==
                 IF annotated_image # None
                    /\ StartsWith(annotated_image, SubSeq(DataUrlPrefix, 1, 10))
                     THEN b64decode(Split(annotated_image, ",")[2]) ELSE <<>>
         IN  SendZip(<<[name |-> "annotated_image.jpg", data |-> annotated_bytes],
                       [name |-> "detection_results.txt", data |-> detection_text]>>)

-----------------------------------------------------------------------------
(* Inputs *)

\* what dcc.Upload puts into contents for a file of the given bytes
UploadUrl(mime, bytes) == PyStr(<<"d","a","t","a",":">> \o mime \o
                                <<";","b","a","s","e","6","4",",">> \o b64encode(bytes))
MimeJpeg == <<"i","m","a","g","e","/","j","p","e","g">>
MimePng == <<"i","m","a","g","e","/","p","n","g">>
MimeText == <<"t","e","x","t","/","p","l","a","i","n">>
Uploads == {UploadUrl(MimeJpeg, JpegFile(1)), UploadUrl(MimePng, PngFile(3)),
            UploadUrl(MimeText, TextFile)}

\* value of the prompt input: None until something is typed
PromptTexts ==
    {None, PyStr(<<>>), PyStr(<<" ", ",", " ">>), PyStr(<<"a">>),
     PyStr(<<"a", ",", " ", "a">>),
     PyStr(<<"b", ",", "a", ",", ",", "c", " ", ",", "d">>)}

\* os.getenv(...) / the key file: no key, an empty key, a key
ApiKeys == {None, PyStr(<<>>), PyStr(<<"k">>)}

D1 == [label |-> <<"a">>, score |-> 90, bounding_box |-> <<1, 1, 5, 5>>]
D2 == [label |-> <<"b">>, score |-> 30, bounding_box |-> <<2, 2, 6, 6>>]
D3 == [label |-> <<"a">>, score |-> 50, bounding_box |-> <<1, 2, 3>>]
D4 == [label |-> <<"b">>, bounding_box |-> <<0, 0, 4, 4>>]
D5 == [label |-> <<"\"", "a", ",", "\n">>, score |-> 90, bounding_box |-> <<3, 3, 7, 7>>]

Body(d) == [t |-> "dict", d |-> d]
Responses ==
    {[t |-> "raise"], [t |-> "null"],
     Body([message |-> "ok"]),
     Body([data |-> <<>>]),
     Body([data |-> <<GroupList(<<D2, D1>>), GroupBare(D4)>>]),
     Body([data |-> <<GroupList(<<D3, D5>>)>>])}

-----------------------------------------------------------------------------
(* toggle_download (toggle_download_button in src/app_try.py) *)

Hidden == [display |-> "none"]
Shown == [width |-> "100%", marginTop |-> "1rem"]

\* triggered lists the inputs in ctx.triggered by the id of their component;
\* it is empty in the call made when the page loads
toggle_download(detect_data, triggered) ==
    IF triggered = <<>> THEN Hidden
    ELSE IF triggered[1] = "detect-button" THEN Hidden
    ELSE IF detect_data # None THEN Shown
    ELSE Hidden

\* the call made when the page loads
InitialCall == [triggered |-> {}]

\* an input of toggle_download changed: a call is due; one call serves all
\* the inputs that changed since the last one
Triggered(id) ==
    [triggered |-> (IF toggle_call = None THEN {} ELSE toggle_call.triggered) \cup {id}]

\* the lists without repetition of the elements of a set
Orders(S) ==
    {q \in [1..Cardinality(S) -> S] : \A i, j \in DOMAIN q : i # j => q[i] # q[j]}

-----------------------------------------------------------------------------
(* The session *)

NoRun == [exit |-> "none"]

Init ==
    /\ variant \in {"app", "app_try"}
    /\ api_key = None
    /\ key_loaded = FALSE
    /\ upload_contents = None
    /\ uploaded_image_container = None
    /\ detection_results = None
    /\ annotated_image_container = None
    /\ detection_store = None
    /\ request = None
    /\ run = NoRun
    /\ calls_made = 0
    /\ download_call = None
    /\ download_button = Hidden
    /\ toggle_call = InitialCall
    /\ draw_call = None

\* store_api_key, fired once when the page loads
store_api_key(k) ==
    /\ ~key_loaded
    /\ api_key' = k
    /\ key_loaded' = TRUE
    /\ UNCHANGED <<draw_call, variant, upload_contents, uploaded_image_container,
                   detection_results, annotated_image_container, detection_store,
                   request, run, calls_made, download_call, download_button, toggle_call>>

\* display_uploaded_image: fired with contents None when the page loads and
\* with the new contents on every upload.  The records run and download_call
\* describe the callback served last and are cleared with the outputs.
display_uploaded_image(contents) ==
    /\ IF contents = None THEN uploaded_image_container = None
                          ELSE key_loaded /\ uploaded_image_container # None
    /\ upload_contents' = contents
    /\ IF contents # None
         THEN /\ uploaded_image_container' = [img_src |-> contents.v]
              /\ detection_results' = Msg("")
              /\ annotated_image_container' = None
              /\ detection_store' = None
         ELSE /\ uploaded_image_container' = Msg("No image uploaded yet.")
              /\ detection_results' = Msg("")
              /\ annotated_image_container' = Msg("No image uploaded yet.")
              /\ detection_store' = None
    /\ run' = NoRun
    /\ download_call' = None
    /\ toggle_call' = Triggered("detection_store")
    /\ UNCHANGED <<draw_call, variant, api_key, key_loaded, request, calls_made,
                   download_button>>

PageLoaded == key_loaded /\ uploaded_image_container # None

\* the number of remote calls a request makes when no call is cut short
PlannedCalls(req) ==
    IF req = None THEN 0
    ELSE IF Falsy(req.contents) \/ Falsy(req.prompt_text) \/ Falsy(req.api_key) THEN 0
    ELSE IF variant = "app" THEN Len(prompts_list(req.prompt_text.v))
    ELSE 1

\* a click on "detect-button": the callback is dispatched with the State
\* values of that moment
DetectClick(prompt_text) ==
    LET req == [contents |-> upload_contents, prompt_text |-> prompt_text,
                api_key |-> api_key]
    IN  /\ PageLoaded
        /\ request = None
        /\ calls_made + PlannedCalls(req) <= MaxCalls
        /\ request' = req
        /\ run' = NoRun
        /\ download_call' = None
        /\ toggle_call' = Triggered("detect-button")
        /\ UNCHANGED <<draw_call, variant, api_key, key_loaded, upload_contents,
                       uploaded_image_container, detection_results,
                       annotated_image_container, detection_store, calls_made,
                       download_button>>

Handle(req, resp) ==
    IF variant = "app"
        THEN detect_objects(req.contents, req.prompt_text, req.api_key, resp)
        ELSE detect_objects_try(req.contents, req.prompt_text, req.api_key, resp)

\* detect_objects runs for the dispatched request; a handler that raises
\* updates no output
DetectResult(resp) ==
    /\ request # None
    /\ \E h \in {Handle(request, resp)} :
           /\ run' = [exit |-> IF h.exc THEN "raised" ELSE "returned",
                      request |-> request,
                      answers |-> SubSeq(resp, 1, Len(h.calls)),
                      calls |-> h.calls, returned |-> h.returned, colors |-> h.colors,
                      batch |-> h.batch, ops |-> h.ops, bytes |-> h.bytes]
           /\ calls_made' = calls_made + Len(h.calls)
           /\ IF h.exc
                THEN UNCHANGED <<detection_results, annotated_image_container,
                                 detection_store, toggle_call>>
                ELSE /\ detection_results' = h.results
                     /\ annotated_image_container' = h.annotated
                     /\ detection_store' = h.store
                     /\ toggle_call' = Triggered("detection_store")
    /\ request' = None
    /\ download_call' = None
    /\ UNCHANGED <<draw_call, variant, api_key, key_loaded, upload_contents,
                   uploaded_image_container, download_button>>

\* a click on "download-button", which takes a button that is displayed:
\* download_results runs on the store
Download ==
    /\ PageLoaded
    /\ download_button = Shown
    /\ download_call' =
           [data |-> detection_store, in_flight |-> request # None,
            out |-> IF variant = "app" THEN download_results(detection_store)
                                       ELSE download_results_try(detection_store)]
    /\ UNCHANGED <<draw_call, variant, api_key, key_loaded, upload_contents,
                   uploaded_image_container, detection_results,
                   annotated_image_container, detection_store, request, run,
                   calls_made, download_button, toggle_call>>

\* the call of toggle_download that is due is served: it reads the store and
\* sets the style of the button.  The source does not fix which of several
\* changed inputs comes first in ctx.triggered.
ToggleDownload ==
    /\ toggle_call # None
    /\ \E triggered \in Orders(toggle_call.triggered) :
           download_button' = toggle_download(detection_store, triggered)
    /\ toggle_call' = None
    /\ UNCHANGED <<draw_call, variant, api_key, key_loaded, upload_contents,
                   uploaded_image_container, detection_results,
                   annotated_image_container, detection_store, request, run,
                   calls_made, download_call>>

Next ==
    \/ \E k \in ApiKeys : store_api_key(k)
    \/ \E c \in Uploads \cup {None} : display_uploaded_image(c)
    \/ \E t \in PromptTexts : DetectClick(t)
    \/ \E resp \in [1..Max(1, PlannedCalls(request)) -> Responses] : DetectResult(resp)
    \/ Download
    \/ ToggleDownload

Spec == Init /\ [][Next]_vars

-----------------------------------------------------------------------------
(* draw_bounding_boxes called on its own.  The arguments of the call are   *)
(* drawn in the initial state, the call is one step: src/app.py takes the   *)
(* prompt-color map, src/app_try.py takes none.                             *)

MaxBatch == 3           \* detections in a batch handed to draw_bounding_boxes

D6 == [label |-> <<"a">>, score |-> 20, bounding_box |-> <<10, 10, 50, 50>>]
D7 == [label |-> <<"b">>, score |-> 80, bounding_box |-> <<20, 20, 60, 60>>]
D8 == [label |-> <<"c">>, score |-> 50, bounding_box |-> <<4, 4, 8, 8>>]
DrawDets == {D1, D3, D4, D5, D6, D7, D8}

\* one detection with any score of [0, 1]
ScoreDets == {[label |-> <<"a">>, score |-> h, bounding_box |-> <<10, 10, 50, 50>>] :
                  h \in 0..100}

DrawBatches ==
    (UNION {[1..n -> DrawDets] : n \in 0..MaxBatch}) \cup {<<d>> : d \in ScoreDets}

DrawImages == {JpegFile(1), PngFile(3), TextFile}

\* the prompt lists the color maps are made of
DrawPrompts == { << <<"a">> >>, << <<"b">>, <<"a">> >> }
DrawColorMaps == IF variant = "app" THEN {prompt_colors(p) : p \in DrawPrompts}
                                    ELSE {<<>>}

InitAnnotator ==
    /\ variant \in {"app", "app_try"}
    /\ api_key = None
    /\ key_loaded = FALSE
    /\ upload_contents = None
    /\ uploaded_image_container = None
    /\ detection_results = None
    /\ annotated_image_container = None
    /\ detection_store = None
    /\ request = None
    /\ run = NoRun
    /\ calls_made = 0
    /\ download_call = None
    /\ download_button = Hidden
    /\ toggle_call = InitialCall
    /\ \E image \in DrawImages, batch \in DrawBatches, colors \in DrawColorMaps :
           draw_call = [decoded_image |-> image, detections |-> batch,
                        prompt_colors |-> colors, out |-> None]

\* draw_bounding_boxes(decoded_image, detections, prompt_colors) of src/app.py
AnnotateWithColors ==
    /\ variant = "app"
    /\ draw_call.out = None
    /\ draw_call' = [draw_call EXCEPT !.out =
           draw_bounding_boxes(draw_call.decoded_image, draw_call.detections,
                               draw_call.prompt_colors)]
    /\ UNCHANGED <<variant, api_key, key_loaded, upload_contents, uploaded_image_container,
                   detection_results, annotated_image_container, detection_store,
                   request, run, calls_made, download_call, download_button,
                   toggle_call>>

\* draw_bounding_boxes(decoded_image, detections) of src/app_try.py
AnnotateByScore ==
    /\ variant = "app_try"
    /\ draw_call.out = None
    /\ draw_call' = [draw_call EXCEPT !.out =
           draw_bounding_boxes_try(draw_call.decoded_image, draw_call.detections)]
    /\ UNCHANGED <<variant, api_key, key_loaded, upload_contents, uploaded_image_container,
                   detection_results, annotated_image_container, detection_store,
                   request, run, calls_made, download_call, download_button,
                   toggle_call>>

NextAnnotator == AnnotateWithColors \/ AnnotateByScore

SpecAnnotator == InitAnnotator /\ [][NextAnnotator]_vars

-----------------------------------------------------------------------------
(* Vocabulary of the properties *)

Served == run.exit # "none"
Returned == run.exit = "returned"
RunPrompts == prompts_list(run.request.prompt_text.v)

Count(seq, x) == Cardinality({i \in DOMAIN seq : seq[i] = x})
IsPermutation(s, t) ==
    /\ Len(s) = Len(t)
    /\ \A i \in DOMAIN s : Count(s, s[i]) = Count(t, s[i])

NonIncreasing(dets) ==
    \A i \in 1..(Len(dets) - 1) : ScoreOf(dets[i]) >= ScoreOf(dets[i + 1])

\* the request lacks an input: no image, no prompt text, no key, or a prompt
\* text without any prompt in it
MissingInput(req) ==
    \/ Falsy(req.contents)
    \/ Falsy(req.prompt_text)
    \/ Falsy(req.api_key)
    \/ raw_prompts(req.prompt_text.v) = <<>>

MissingInputMessages ==
    {Msg("No image uploaded yet."), Msg("Please enter at least one prompt."),
     Msg("API key missing. Please ensure you have saved your API key."),
     Msg("No valid prompts found.")}

-----------------------------------------------------------------------------
\* C1: a detect request that lacks the image, the prompt text or the API key,
\* or whose prompt text holds no prompt, returns a missing-input message with
\* no annotated image and an empty store, and makes no remote call.
C1_MissingInputNoCall ==
    (Served /\ MissingInput(run.request)) =>
        /\ Returned
        /\ run.calls = <<>>
        /\ detection_results \in MissingInputMessages
        /\ annotated_image_container = None
        /\ detection_store = None

-----------------------------------------------------------------------------
\* the answers of the calls that raised, as the prompts they were made for
RECURSIVE FailedPrompts(_, _)
FailedPrompts(answers, prompts) ==
    IF answers = <<>> THEN <<>>
    ELSE (IF Head(answers).t = "raise" THEN <<Head(prompts)>> ELSE <<>>)
         \o FailedPrompts(Tail(answers), Tail(prompts))

FailedLines(status) ==
    LET failed == SelectSeq(status, LAMBDA l : l.line = "Failed")
    IN  [i \in DOMAIN failed |-> failed[i].prompt]

\* C2: in src/app.py the calls are made one per prompt in submission order; a
\* call that raises never ends the loop (the next prompt is still called), and
\* when the handler returns every prompt was called, the batch holds exactly
\* the detections of the calls that succeeded, and each failed call left one
\* failure line and nothing else.
C2_FailureIsolated ==
    (variant = "app" /\ Served /\ run.calls # <<>>) =>
        /\ Len(run.calls) <= Len(RunPrompts)
        /\ \A i \in DOMAIN run.calls : run.calls[i].prompt = RunPrompts[i]
        /\ \A i \in DOMAIN run.calls :
               (run.answers[i].t = "raise" /\ i < Len(RunPrompts)) => Len(run.calls) > i
        /\ Returned =>
               /\ Len(run.calls) = Len(RunPrompts)
               /\ IsPermutation(run.batch, run.returned)
               /\ FailedLines(detection_results.status)
                      = FailedPrompts(run.answers, RunPrompts)

C2_Witness ==
    /\ variant = "app" /\ Returned /\ Len(run.calls) >= 2
    /\ \E i, j \in DOMAIN run.answers :
           /\ i < j
           /\ run.answers[i].t = "raise"
           /\ DetectionsOfResponse(run.answers[j]) # <<>>
    /\ run.batch # <<>>
    /\ detection_store # None

-----------------------------------------------------------------------------
\* the detections listed to the user: the rows of the table (src/app.py) or
\* the lines of the text (src/app_try.py)
Listed == IF variant = "app" THEN detection_results.table.data
                             ELSE detection_results.lines
ListsBatch ==
    /\ Len(Listed) = Len(run.batch)
    /\ \A i \in DOMAIN Listed :
           /\ Listed[i].Label = Get(run.batch[i], "label", NA)
           /\ Listed[i].Score = FormatScore(Get(run.batch[i], "score", 0))

\* the detections the handler takes from the responses: every group of every
\* successful response in src/app.py, the first group in src/app_try.py
Taken == IF variant = "app" THEN run.returned
                            ELSE GroupItems(run.answers[1].d.data[1])

\* C3 as stated: the detections listed and handed to the annotator are in
\* non-increasing score order and are a permutation of the detections the
\* remote calls returned.
C3_SortedPermutationOfReturned ==
    (Returned /\ run.batch # <<>>) =>
        /\ NonIncreasing(run.batch)
        /\ ListsBatch
        /\ IsPermutation(run.batch, run.returned)

\* C3 amended: the detections listed and handed to the annotator are in
\* non-increasing score order and are a permutation of the detections the
\* handler takes from the responses (src/app_try.py takes the first group only).
C3_SortedPermutationOfTaken ==
    (Returned /\ run.batch # <<>>) =>
        /\ NonIncreasing(run.batch)
        /\ ListsBatch
        /\ IsPermutation(run.batch, Taken)

C3_Witness ==
    /\ Returned /\ Len(run.batch) >= 2
    /\ run.batch # Taken
    /\ \E i \in DOMAIN run.batch : ScoreOf(run.batch[i]) > ScoreOf(run.batch[Len(run.batch)])
    /\ detection_store # None

-----------------------------------------------------------------------------
FourBoxes(dets) ==
    LET drawable == SelectSeq(dets, LAMBDA d : Len(Get(d, "bounding_box", <<>>)) = 4)
    IN  [i \in DOMAIN drawable |-> drawable[i].bounding_box]
RectanglesDrawn(ops) ==
    LET rects == SelectSeq(ops, LAMBDA o : o.op = "rectangle")
    IN  [i \in DOMAIN rects |-> rects[i].xy]
LabelsDrawn(ops) == Len(SelectSeq(ops, LAMBDA o : o.op = "text"))

\* the uploaded file of the request is an image the annotator can open and
\* save as JPEG without conversion
UploadIsRgb(req) ==
    LET im == ImageOpen(b64decode(Split(req.contents.v, ",")[2]))
    IN  ~im.exc /\ im.mode = "RGB"

\* C4: draw_bounding_boxes skips a detection whose box has not exactly four
\* coordinates: nothing is drawn for it, no error is raised, and every
\* detection of the batch with a four-coordinate box is drawn.
C4_MalformedBoxSkipped ==
    (Served /\ run.batch # <<>> /\ UploadIsRgb(run.request)) =>
        /\ Returned
        /\ RectanglesDrawn(run.ops) = FourBoxes(run.batch)
        /\ LabelsDrawn(run.ops) = Len(FourBoxes(run.batch))

-----------------------------------------------------------------------------
\* C5: no failure on the detect path leaves detect_objects as an uncaught
\* exception: every served request returns.
C5_NoUncaughtException == Served => Returned

-----------------------------------------------------------------------------
\* C6: a detect request that fails leaves the store empty, so the store never
\* keeps the result of an earlier request.
C6_FailureEmptiesStore == run.exit = "raised" => detection_store = None

-----------------------------------------------------------------------------
EmptyAnswer(a) == a.t = "dict" /\ ("data" \notin DOMAIN a.d \/ a.d.data = <<>>)
LinesOf(a) == IF a.t = "dict" /\ ~EmptyAnswer(a) THEN Len(a.d.data) ELSE 1
\* index in status of the last line written before the i-th call
RECURSIVE LinesBefore(_, _)
LinesBefore(answers, i) ==
    IF i = 1 THEN 1 ELSE LinesBefore(answers, i - 1) + LinesOf(answers[i - 1])

\* C7: in src/app.py a successful response without the data field or with an
\* empty data list counts as zero detections for its prompt: the next prompt
\* is still called, and when the handler returns the prompt has the line
\* "No detections returned", not a failure line, and the batch holds exactly
\* the detections of the other responses.
C7_EmptyResponseIsZeroDetections ==
    (variant = "app" /\ Served /\ run.calls # <<>>) =>
        \A i \in DOMAIN run.answers :
            EmptyAnswer(run.answers[i]) =>
                /\ i < Len(RunPrompts) => Len(run.calls) > i
                /\ Returned =>
                       /\ detection_results.status[LinesBefore(run.answers, i) + 1]
                              = [line |-> "NoDetections", prompt |-> RunPrompts[i]]
                       /\ FailedLines(detection_results.status)
                              = FailedPrompts(run.answers, RunPrompts)
                       /\ IsPermutation(run.batch, run.returned)

C7_Witness ==
    /\ variant = "app" /\ Returned /\ detection_store # None
    /\ \E i, j, k \in DOMAIN run.answers :
           /\ i < k /\ j < k
           /\ run.answers[i].t = "dict" /\ "data" \notin DOMAIN run.answers[i].d
           /\ run.answers[j].t = "dict" /\ "data" \in DOMAIN run.answers[j].d
           /\ run.answers[j].d.data = <<>>
           /\ DetectionsOfResponse(run.answers[k]) # <<>>

-----------------------------------------------------------------------------
\* C8: src/app.py calls at most the first three prompts, and the color map
\* gives the i-th submitted prompt the i-th palette color (green, blue, red),
\* also when a prompt is repeated.
C8_ColorsInSubmissionOrder ==
    (variant = "app" /\ Served /\ run.calls # <<>>) =>
        /\ Len(run.calls) <= 3
        /\ \A i \in DOMAIN RunPrompts : run.colors[RunPrompts[i]] = base_palette[i]

-----------------------------------------------------------------------------
SummaryName == IF variant = "app" THEN "results.csv" ELSE "detection_results.txt"

\* C9: download_results on an empty store produces no archive (no_update); on
\* a non-empty store it produces results.zip with exactly the two entries
\* annotated_image.jpg and the summary, both with content.
C9_ArchiveCompleteOrNone ==
    download_call # None =>
        IF download_call.data = None
            THEN download_call.out = no_update
            ELSE /\ download_call.out # no_update
                 /\ download_call.out.filename = "results.zip"
                 /\ Len(download_call.out.zip) = 2
                 /\ download_call.out.zip[1].name = "annotated_image.jpg"
                 /\ download_call.out.zip[2].name = SummaryName
                 /\ download_call.out.zip[1].data # <<>>
                 /\ IF variant = "app" THEN download_call.out.zip[2].data # <<>>
                                       ELSE download_call.out.zip[2].data.lines # <<>>

C9_Witness ==
    /\ download_call # None
    /\ download_call.data # None
    /\ download_call.out # no_update
    /\ Len(download_call.out.zip) = 2

-----------------------------------------------------------------------------
(* Unpacking results.csv: csv.reader of the excel dialect.  st is the state *)
(* of the reader: at the start of a record, at the start of a field, inside *)
(* an unquoted field, inside a quoted field, after a quote in a quoted      *)
(* field.                                                                   *)

LineBreak == {"\r", "\n"}
RECURSIVE CsvParse(_, _, _, _, _, _)
CsvParse(s, i, st, cur, fields, rows) ==
    IF i > Len(s) THEN
        IF st = "record" THEN rows ELSE Append(rows, Append(fields, cur))
    ELSE LET c == s[i] IN
        IF st = "record" /\ c \in LineBreak THEN
            CsvParse(s, i + 1, "record", <<>>, <<>>, rows)
        ELSE IF st \in {"record", "start"} THEN
            IF c = "\"" THEN CsvParse(s, i + 1, "quoted", <<>>, fields, rows)
            ELSE IF c = "," THEN CsvParse(s, i + 1, "start", <<>>, Append(fields, <<>>), rows)
            ELSE IF c \in LineBreak THEN
                CsvParse(s, i + 1, "record", <<>>, <<>>, Append(rows, Append(fields, <<>>)))
            ELSE CsvParse(s, i + 1, "field", <<c>>, fields, rows)
        ELSE IF st = "quoted" THEN
            IF c = "\"" THEN CsvParse(s, i + 1, "quote", cur, fields, rows)
            ELSE CsvParse(s, i + 1, "quoted", Append(cur, c), fields, rows)
        ELSE \* "field", or "quote": the character after a quote in a quoted field
            IF c = "\"" /\ st = "quote" THEN
                CsvParse(s, i + 1, "quoted", Append(cur, c), fields, rows)
            ELSE IF c = "," THEN
                CsvParse(s, i + 1, "start", <<>>, Append(fields, cur), rows)
            ELSE IF c \in LineBreak THEN
                CsvParse(s, i + 1, "record", <<>>, <<>>, Append(rows, Append(fields, cur)))
            ELSE CsvParse(s, i + 1, "field", Append(cur, c), fields, rows)
ReadCsv(text) == CsvParse(text, 1, "record", <<>>, <<>>, <<>>)

RowFields(row) == <<row["Label"], row["Score"], row["Bounding Box"]>>

\* C10: for a bundle stored by detect_objects of src/app.py, the archive of
\* download_results unpacks to the stored image bytes in annotated_image.jpg
\* and, in results.csv, to the header and the stored table rows in their order.
C10_PackUnpackRoundTrip ==
    (variant = "app" /\ download_call # None /\ download_call.data # None) =>
        LET zip == download_call.out.zip
            tbl == download_call.data.detection_table
            rows == ReadCsv(zip[2].data)
        IN  /\ DataUrlPrefix \o b64encode(zip[1].data) = download_call.data.annotated_image
            /\ Returned => zip[1].data = run.bytes
            /\ Len(rows) = Len(tbl) + 1
            /\ rows[1] = HeaderChars
            /\ \A i \in DOMAIN tbl : rows[i + 1] = RowFields(tbl[i])

C10_Witness ==
    /\ variant = "app" /\ Returned
    /\ download_call # None /\ download_call.data # None
    /\ download_call.data = detection_store
    /\ Len(download_call.data.detection_table) >= 2
    /\ \E i \in DOMAIN download_call.data.detection_table :
           LET label == download_call.data.detection_table[i].Label
           IN  \E k, m, n \in DOMAIN label :
                   label[k] = "," /\ label[m] = "\"" /\ label[n] = "\n"
    /\ Len(run.bytes) % 3 # 0

-----------------------------------------------------------------------------
(* draw_bounding_boxes on its own *)

Drawn == draw_call # None /\ draw_call.out # None
DrawnImage == ImageOpen(draw_call.decoded_image)

\* C11: draw_bounding_boxes called on a valid image with an empty detection
\* batch raises no error, draws nothing and returns the source image
\* converted to RGB and otherwise unchanged, in src/app.py and src/app_try.py.
C11_EmptyBatchUnchanged ==
    (Drawn /\ draw_call.detections = <<>> /\ ~DrawnImage.exc) =>
        /\ ~draw_call.out.exc
        /\ draw_call.out.ops = <<>>
        /\ draw_call.out.bytes = <<255, 216, DrawnImage.px>>

-----------------------------------------------------------------------------
\* the detections of the call that have a box of four coordinates; the call
\* draws a rectangle and a text for each of them, in this order
Drawable == SelectSeq(draw_call.detections,
                      LAMBDA d : Len(Get(d, "bounding_box", <<>>)) = 4)
OutlineOf(i) == draw_call.out.ops[2 * i - 1].outline
FillOf(i) == draw_call.out.ops[2 * i].fill

\* c is x / 100 rounded down, for x >= 0
IsFloorOfHundredths(c, x) == c * 100 <= x /\ x < (c + 1) * 100

BaseColorOf(det) ==
    IF Get(det, "label", NA) \in DOMAIN draw_call.prompt_colors
        THEN draw_call.prompt_colors[Get(det, "label", NA)]
        ELSE <<0, 0, 0>>

\* C12: with a color map, the color drawn for a detection is the base color
\* of its label scaled channel by channel by the detection's own score and
\* rounded down, whatever the other scores of the batch are; base (0,255,0)
\* and score 0.9 give (0,229,0), and for a score in [0,1] every channel is in
\* 0..255.
C12_ColorIsBaseTimesScore ==
    (variant = "app" /\ Drawn /\ ~draw_call.out.exc) =>
        /\ Len(draw_call.out.ops) = 2 * Len(Drawable)
        /\ \A i \in DOMAIN Drawable :
               LET base == BaseColorOf(Drawable[i])
                   score == ScoreOf(Drawable[i])
               IN  /\ FillOf(i) = OutlineOf(i)
                   /\ \A k \in 1..3 :
                          /\ IsFloorOfHundredths(OutlineOf(i)[k], base[k] * score)
                          /\ score \in 0..100 => OutlineOf(i)[k] \in 0..255
                   /\ (base = <<0, 255, 0>> /\ score = 90) => OutlineOf(i) = <<0, 229, 0>>
                   /\ score = 100 => OutlineOf(i) = base

C12_Witness ==
    /\ variant = "app" /\ Drawn /\ ~draw_call.out.exc
    /\ Len(Drawable) >= 2
    /\ \E i, j \in DOMAIN Drawable :
           /\ BaseColorOf(Drawable[i]) = <<0, 255, 0>> /\ ScoreOf(Drawable[i]) = 90
           /\ OutlineOf(i) = <<0, 229, 0>>
           /\ BaseColorOf(Drawable[j]) = <<0, 255, 0>> /\ ScoreOf(Drawable[j]) = 20
           /\ OutlineOf(j) = <<0, 51, 0>>

-----------------------------------------------------------------------------
BatchScores == {ScoreOf(draw_call.detections[i]) : i \in DOMAIN draw_call.detections}
LowestScore == CHOOSE s \in BatchScores : \A t \in BatchScores : s <= t
HighestScore == CHOOSE s \in BatchScores : \A t \in BatchScores : s >= t

\* the rectangles drawn by the call, in the order they were drawn
Rectangles == SelectSeq(draw_call.out.ops, LAMBDA o : o.op = "rectangle")
\* the scores of the detections of the batch that have the box xy
ScoresAt(xy) ==
    {ScoreOf(draw_call.detections[i]) :
        i \in {j \in DOMAIN draw_call.detections :
                   Get(draw_call.detections[j], "bounding_box", <<>>) = xy}}

\* c is n / d rounded down, for n >= 0 and d > 0
IsFloorOfQuotient(c, n, d) == c * d <= n /\ n < (c + 1) * d

\* the color the claim gives a detection of the given score
IsGradientColor(c, score) ==
    IF HighestScore > LowestScore
        THEN /\ IsFloorOfQuotient(c[1], 255 * (HighestScore - score),
                                  HighestScore - LowestScore)
             /\ IsFloorOfQuotient(c[2], 255 * (score - LowestScore),
                                  HighestScore - LowestScore)
             /\ c[3] = 0
             /\ score = LowestScore => c = <<255, 0, 0>>
             /\ score = HighestScore => c = <<0, 255, 0>>
        ELSE c = <<0, 255, 0>>

AllBoxesHaveFour ==
    \A i \in DOMAIN draw_call.detections :
        Len(Get(draw_call.detections[i], "bounding_box", <<>>)) = 4

-----------------------------------------------------------------------------
\* C14: without a color map, for a batch with at least two distinct scores the
\* box of the highest-score detection is the last rectangle drawn, so it lies
\* on top of the boxes of the detections with lower scores.
C14_HighestDrawnLast ==
    (variant = "app_try" /\ Drawn /\ ~draw_call.out.exc
     /\ draw_call.detections # <<>> /\ HighestScore > LowestScore) =>
        /\ Rectangles # <<>>
        /\ ScoresAt(Rectangles[Len(Rectangles)].xy) = {HighestScore}

-----------------------------------------------------------------------------
\* C15: over any interleaving of the upload, detect-click, detect-result and
\* toggle callbacks the download button is displayed only while the store is
\* non-empty and no detect request is in flight, so download_results never
\* runs on an empty store or while a detect request is in flight.
C15_DownloadOnlyOnStoredResult ==
    /\ download_button = Shown => (detection_store # None /\ request = None)
    /\ download_call # None => (download_call.data # None /\ ~download_call.in_flight)

====
